---------------------------- MODULE Spec2Model ----------------------------
(***************************************************************************)
(* A model of src/app.js: the GeoJSON importer of a browser map viewer      *)
(* (geometry conversion, popup formatting, bounds accumulation, the upload  *)
(* handler and the layer registry) and the event loop that runs its         *)
(* handlers.                                                                *)
(*                                                                          *)
(* JavaScript values are modelled as follows.  A coordinate read from JSON  *)
(* is an integer.  A field of a bounding box is a JsNum: a finite number,   *)
(* NaN, undefined, +Infinity or -Infinity (Math.min and Math.max produce    *)
(* the last four).  null is the record Null, a thrown TypeError the record  *)
(* TypeError.  A string is a sequence of text pieces, so that markup and    *)
(* text stay distinguishable.                                               *)
(***************************************************************************)
EXTENDS Integers, Sequences, FiniteSets

(***************************************************************************)
(* Bounds of the model.                                                     *)
(***************************************************************************)
\* coordinates range over 0..MaxCoord
MaxCoord == 1
\* positions in one geometry handed to the converter
MaxPts == 2
\* features in one FeatureCollection
MaxFeatures == 2
\* entries in one properties map
MaxProps == 2
\* geometries folded by the bounds accumulator
MaxFolds == 2
\* user events handled in one run of the application
MaxEvents == 3
\* Date.now() ranges over 0..MaxClock
MaxClock == 1

(***************************************************************************)
(* JavaScript numbers as they occur in a bounding box.                      *)
(***************************************************************************)
Num(n) == [k |-> "num", v |-> n]
NaN == [k |-> "NaN", v |-> 0]
Undefined == [k |-> "undefined", v |-> 0]
PosInf == [k |-> "+Infinity", v |-> 0]
NegInf == [k |-> "-Infinity", v |-> 0]

IsFinite(a) == a.k = "num"
\* ToNumber(undefined) is NaN
ToNumber(a) == IF a.k = "undefined" THEN NaN ELSE a

SetMin(S) == CHOOSE m \in S : \A n \in S : m <= n
SetMax(S) == CHOOSE m \in S : \A n \in S : m >= n

\* Math.min(...args), args a sequence of JsNum
MathMin(args) ==
    LET n == [i \in DOMAIN args |-> ToNumber(args[i])]
        fin == {n[i].v : i \in {j \in DOMAIN n : n[j].k = "num"}}
    IN  IF \E i \in DOMAIN n : n[i].k = "NaN" THEN NaN
        ELSE IF \E i \in DOMAIN n : n[i].k = "-Infinity" THEN NegInf
        ELSE IF fin = {} THEN PosInf
        ELSE Num(SetMin(fin))

\* Math.max(...args)
MathMax(args) ==
    LET n == [i \in DOMAIN args |-> ToNumber(args[i])]
        fin == {n[i].v : i \in {j \in DOMAIN n : n[j].k = "num"}}
    IN  IF \E i \in DOMAIN n : n[i].k = "NaN" THEN NaN
        ELSE IF \E i \in DOMAIN n : n[i].k = "+Infinity" THEN PosInf
        ELSE IF fin = {} THEN NegInf
        ELSE Num(SetMax(fin))

\* a <= b of JavaScript: false when either side is NaN or undefined
JsLeq(a, b) ==
    LET x == ToNumber(a)
        y == ToNumber(b)
    IN  IF x.k = "NaN" \/ y.k = "NaN" THEN FALSE
        ELSE IF x.k = "-Infinity" \/ y.k = "+Infinity" THEN TRUE
        ELSE IF x.k = "+Infinity" \/ y.k = "-Infinity" THEN FALSE
        ELSE x.v <= y.v

JsNeg(a) ==
    LET x == ToNumber(a)
    IN  CASE x.k = "num" -> Num(0 - x.v)
          [] x.k = "+Infinity" -> NegInf
          [] x.k = "-Infinity" -> PosInf
          [] OTHER -> NaN

\* a + b of JavaScript
JsAdd(a, b) ==
    LET x == ToNumber(a)
        y == ToNumber(b)
    IN  IF x.k = "NaN" \/ y.k = "NaN" THEN NaN
        ELSE IF x.k = "num" /\ y.k = "num" THEN Num(x.v + y.v)
        ELSE IF x.k = "num" THEN y
        ELSE IF y.k = "num" THEN x
        ELSE IF x.k = y.k THEN x
        ELSE NaN

JsSub(a, b) == JsAdd(a, JsNeg(b))

\* a * n for an integer n > 0
JsScale(a, n) ==
    LET x == ToNumber(a)
    IN  IF x.k = "num" THEN Num(x.v * n) ELSE x

(***************************************************************************)
(* Sequences.                                                               *)
(***************************************************************************)
RECURSIVE Flat(_)
\* Array.prototype.flat(): one level
Flat(ss) == IF ss = <<>> THEN <<>> ELSE Head(ss) \o Flat(Tail(ss))

SeqsUpTo(S, n) == UNION {[1..m -> S] : m \in 0..n}

RECURSIVE SplitAt(_, _)
\* the sequence s cut after each index of cuts: the parts, in order
SplitAt(s, cuts) ==
    IF s = <<>> THEN <<>>
    ELSE IF cuts = {} THEN <<s>>
    ELSE LET m == SetMax(cuts)
         IN  Append(SplitAt(SubSeq(s, 1, m), cuts \ {m}), SubSeq(s, m + 1, Len(s)))

\* every way of grouping s into consecutive non-empty parts
Groupings(s) == {SplitAt(s, c) : c \in SUBSET (1..(Len(s) - 1))}

(***************************************************************************)
(* GeoJSON geometries (RFC 7946): the values JSON.parse can hand over.      *)
(***************************************************************************)
Coord == 0..MaxCoord
Positions == {<<x, y>> : x \in Coord, y \in Coord}
PositionLists == SeqsUpTo(Positions, MaxPts)
PositionLists2 == UNION {Groupings(s) : s \in PositionLists}
PositionLists3 == UNION {Groupings(s) : s \in PositionLists2}

Null == [type |-> "null"]
TypeError == [type |-> "TypeError"]

SupportedTypes ==
    {"Point", "LineString", "Polygon", "MultiPoint", "MultiLineString", "MultiPolygon"}

Geom(t, c) == [type |-> t, coordinates |-> c]
GeometryCollection == [type |-> "GeometryCollection", geometries |-> <<>>]

GeoJSONGeometries ==
    {Geom("Point", p) : p \in Positions}
    \cup {Geom(t, c) : t \in {"LineString", "MultiPoint"}, c \in PositionLists}
    \cup {Geom(t, c) : t \in {"Polygon", "MultiLineString"}, c \in PositionLists2}
    \cup {Geom("MultiPolygon", c) : c \in PositionLists3}
    \cup {GeometryCollection, Null}

(***************************************************************************)
(* convertGeoJSONGeometry                                                   *)
(***************************************************************************)
\* a bug a maintainer could write: MultiPolygon keeps its first polygon only
convertKeepsFirstPolygon(geojsonGeom) ==
    IF geojsonGeom = Null THEN TypeError
    ELSE CASE geojsonGeom.type = "Point" ->
                [type |-> "point",
                 longitude |-> geojsonGeom.coordinates[1],
                 latitude |-> geojsonGeom.coordinates[2]]
           [] geojsonGeom.type = "LineString" ->
                [type |-> "polyline", paths |-> <<geojsonGeom.coordinates>>]
           [] geojsonGeom.type = "Polygon" ->
                [type |-> "polygon", rings |-> geojsonGeom.coordinates]
           [] geojsonGeom.type = "MultiPoint" ->
                [type |-> "multipoint", points |-> geojsonGeom.coordinates]
           [] geojsonGeom.type = "MultiLineString" ->
                [type |-> "polyline", paths |-> geojsonGeom.coordinates]
           [] geojsonGeom.type = "MultiPolygon" ->
                [type |-> "polygon",
                 rings |-> IF geojsonGeom.coordinates = <<>> THEN <<>>
                           ELSE Head(geojsonGeom.coordinates)]
           [] OTHER -> Null

\* reading .type of null throws; coordinates[0] is index 1 here
convertGeoJSONGeometry(geojsonGeom) ==
    IF geojsonGeom = Null THEN TypeError
    ELSE CASE geojsonGeom.type = "Point" ->
                [type |-> "point",
                 longitude |-> geojsonGeom.coordinates[1],
                 latitude |-> geojsonGeom.coordinates[2]]
           [] geojsonGeom.type = "LineString" ->
                [type |-> "polyline", paths |-> <<geojsonGeom.coordinates>>]
           [] geojsonGeom.type = "Polygon" ->
                [type |-> "polygon", rings |-> geojsonGeom.coordinates]
           [] geojsonGeom.type = "MultiPoint" ->
                [type |-> "multipoint", points |-> geojsonGeom.coordinates]
           [] geojsonGeom.type = "MultiLineString" ->
                [type |-> "polyline", paths |-> geojsonGeom.coordinates]
           [] geojsonGeom.type = "MultiPolygon" ->
                [type |-> "polygon", rings |-> Flat(geojsonGeom.coordinates)]
           [] OTHER -> Null

(***************************************************************************)
(* getSymbolForGeometry: the style is identified by its `type`.             *)
(***************************************************************************)
getSymbolForGeometry(geomType) ==
    CASE geomType \in {"Point", "MultiPoint"} -> [type |-> "simple-marker"]
      [] geomType \in {"LineString", "MultiLineString"} -> [type |-> "simple-line"]
      [] geomType \in {"Polygon", "MultiPolygon"} -> [type |-> "simple-fill"]
      [] OTHER -> Null

(***************************************************************************)
(* Properties of a feature: a JSON object holds a sequence of <<key, value>> *)
(* entries with distinct keys, in insertion order; values are strings.      *)
(* An absent or null `properties` member is Null.                           *)
(***************************************************************************)
PropKeys == {"name", "title", "foo"}
PropValues == {"A", "bar", ""}

Obj(entries) == [type |-> "object", entries |-> entries]

PropertyMaps ==
    {Obj(m) : m \in {e \in SeqsUpTo(PropKeys \X PropValues, MaxProps) :
                        \A i, j \in DOMAIN e : i # j => e[i][1] # e[j][1]}}

\* Object.keys(properties).length
Size(properties) == Len(properties.entries)
HasKey(properties, key) ==
    \E i \in DOMAIN properties.entries : properties.entries[i][1] = key
\* properties[key] for a key that is present
ValueOf(properties, key) ==
    properties.entries[CHOOSE i \in DOMAIN properties.entries :
                           properties.entries[i][1] = key][2]
\* a string is falsy exactly when it is empty; a missing key reads undefined
Truthy(properties, key) == HasKey(properties, key) /\ ValueOf(properties, key) # ""

RECURSIVE Join(_, _)
\* Array.prototype.join over strings that are sequences of pieces
Join(lines, sep) ==
    IF lines = <<>> THEN <<>>
    ELSE IF Len(lines) = 1 THEN lines[1]
    ELSE lines[1] \o sep \o Join(Tail(lines), sep)

\* `<b>${key}:</b> ${value}`
EntryMarkup(entry) == <<"<b>", entry[1], ":", "</b>", " ", entry[2]>>

\* a bug a maintainer could write: ?? in place of ||, a present empty name wins
createPopupTemplateNullish(properties) ==
    IF properties = Null \/ Size(properties) = 0
    THEN [title |-> "Feature", content |-> <<"No properties available">>]
    ELSE [title |-> IF HasKey(properties, "name") THEN ValueOf(properties, "name")
                    ELSE IF HasKey(properties, "title") THEN ValueOf(properties, "title")
                    ELSE "Feature",
          content |-> Join([i \in DOMAIN properties.entries |->
                                EntryMarkup(properties.entries[i])],
                           <<"<br>">>)]

createPopupTemplate(properties) ==
    IF properties = Null \/ Size(properties) = 0
    THEN [title |-> "Feature", content |-> <<"No properties available">>]
    ELSE [title |-> IF Truthy(properties, "name") THEN ValueOf(properties, "name")
                    ELSE IF Truthy(properties, "title") THEN ValueOf(properties, "title")
                    ELSE "Feature",
          content |-> Join([i \in DOMAIN properties.entries |->
                                EntryMarkup(properties.entries[i])],
                           <<"<br>">>)]

(***************************************************************************)
(* createGraphicFromGeoJSON: null for an unsupported geometry, a TypeError  *)
(* when the converter throws.                                               *)
(***************************************************************************)
createGraphicFromGeoJSON(feature) ==
    LET geometry == convertGeoJSONGeometry(feature.geometry)
    IN  IF geometry = TypeError THEN TypeError
        ELSE IF geometry = Null THEN Null
        ELSE [type |-> "Graphic",
              geometry |-> geometry,
              symbol |-> getSymbolForGeometry(feature.geometry.type),
              attributes |-> IF feature.properties = Null THEN Obj(<<>>)
                             ELSE feature.properties,
              popupTemplate |-> createPopupTemplate(feature.properties)]

(***************************************************************************)
(* updateBounds and the expand function it attaches to a box.               *)
(***************************************************************************)
Xs(coords) == [i \in DOMAIN coords |-> Num(coords[i][1])]
Ys(coords) == [i \in DOMAIN coords |-> Num(coords[i][2])]

\* minX, minY, maxX, maxY of one geometry; a type with no branch leaves them
\* undefined
GeometryExtent(geometry) ==
    CASE geometry.type = "point" ->
            [minX |-> Num(geometry.longitude), maxX |-> Num(geometry.longitude),
             minY |-> Num(geometry.latitude), maxY |-> Num(geometry.latitude)]
      [] geometry.type = "polyline" ->
            LET coords == Flat(geometry.paths)
            IN  [minX |-> MathMin(Xs(coords)), maxX |-> MathMax(Xs(coords)),
                 minY |-> MathMin(Ys(coords)), maxY |-> MathMax(Ys(coords))]
      [] geometry.type = "polygon" ->
            LET coords == Flat(geometry.rings)
            IN  [minX |-> MathMin(Xs(coords)), maxX |-> MathMax(Xs(coords)),
                 minY |-> MathMin(Ys(coords)), maxY |-> MathMax(Ys(coords))]
      [] OTHER ->
            [minX |-> Undefined, maxX |-> Undefined,
             minY |-> Undefined, maxY |-> Undefined]

Box(xmin, ymin, xmax, ymax) ==
    [type |-> "extent", xmin |-> xmin, ymin |-> ymin, xmax |-> xmax, ymax |-> ymax,
     wkid |-> 4326]

\* a bug a maintainer could write: a later geometry replaces the lower corner
updateBoundsKeepsLast(bounds, geometry) ==
    IF geometry = Null THEN bounds
    ELSE LET e == GeometryExtent(geometry)
         IN  IF bounds = Null THEN Box(e.minX, e.minY, e.maxX, e.maxY)
             ELSE Box(e.minX, e.minY,
                      MathMax(<<bounds.xmax, e.maxX>>), MathMax(<<bounds.ymax, e.maxY>>))

updateBounds(bounds, geometry) ==
    IF geometry = Null THEN bounds
    ELSE LET e == GeometryExtent(geometry)
         IN  IF bounds = Null THEN Box(e.minX, e.minY, e.maxX, e.maxY)
             ELSE Box(MathMin(<<bounds.xmin, e.minX>>), MathMin(<<bounds.ymin, e.minY>>),
                      MathMax(<<bounds.xmax, e.maxX>>), MathMax(<<bounds.ymax, e.maxY>>))

\* the factor 1.2 of bounds.expand(1.2), as the fraction 12/10
ExpandFactorNum == 12
ExpandFactorDen == 10

\* the fields of an expanded box are exact fractions with this denominator
ExpandScale == 2 * ExpandFactorDen

\* a bug a maintainer could write: pad by a fixed margin as well
expandPadded(box) ==
    LET width == JsSub(box.xmax, box.xmin)
        height == JsSub(box.ymax, box.ymin)
        expandWidth == JsAdd(JsScale(width, ExpandFactorNum - ExpandFactorDen), Num(1))
        expandHeight == JsAdd(JsScale(height, ExpandFactorNum - ExpandFactorDen), Num(1))
    IN  [type |-> "expanded",
         xmin |-> JsSub(JsScale(box.xmin, ExpandScale), expandWidth),
         ymin |-> JsSub(JsScale(box.ymin, ExpandScale), expandHeight),
         xmax |-> JsAdd(JsScale(box.xmax, ExpandScale), expandWidth),
         ymax |-> JsAdd(JsScale(box.ymax, ExpandScale), expandHeight),
         wkid |-> box.wkid]

\* box.expand(1.2): every field is multiplied by ExpandScale so that
\* width * (factor - 1) / 2 stays an integer
expand(box) ==
    LET width == JsSub(box.xmax, box.xmin)
        height == JsSub(box.ymax, box.ymin)
        expandWidth == JsScale(width, ExpandFactorNum - ExpandFactorDen)
        expandHeight == JsScale(height, ExpandFactorNum - ExpandFactorDen)
    IN  [type |-> "expanded",
         xmin |-> JsSub(JsScale(box.xmin, ExpandScale), expandWidth),
         ymin |-> JsSub(JsScale(box.ymin, ExpandScale), expandHeight),
         xmax |-> JsAdd(JsScale(box.xmax, ExpandScale), expandWidth),
         ymax |-> JsAdd(JsScale(box.ymax, ExpandScale), expandHeight),
         wkid |-> box.wkid]

(***************************************************************************)
(* Documents and files.  A file holds a name and a text; JSON.parse either  *)
(* yields the document the text denotes or throws a SyntaxError.            *)
(***************************************************************************)
Feature(geometry, properties) ==
    [type |-> "Feature", geometry |-> geometry, properties |-> properties]
FeatureCollection(features) == [type |-> "FeatureCollection", features |-> features]

\* one geometry of every type, a GeometryCollection and a null geometry
SampleGeometries ==
    {Geom("Point", <<2, 3>>),
     Geom("LineString", <<<<0, 0>>, <<1, 5>>>>),
     Geom("Polygon", <<<<<<4, 1>>, <<6, 1>>, <<6, 2>>, <<4, 1>>>>>>),
     Geom("MultiPoint", <<<<7, 0>>, <<8, 4>>>>),
     Geom("MultiLineString", <<<<<<3, 3>>, <<3, 4>>>>, <<<<5, 5>>, <<2, 6>>>>>>),
     Geom("MultiPolygon", <<<<<<<<7, 7>>, <<8, 8>>, <<7, 8>>, <<7, 7>>>>>>,
                            <<<<<<9, 0>>, <<9, 1>>, <<8, 0>>, <<9, 0>>>>>>>>),
     GeometryCollection,
     Null}

FeaturePool ==
    {Feature(g, p) : g \in SampleGeometries, p \in {Null, Obj(<<<<"name", "A">>>>)}}

\* documents whose top-level type is neither FeatureCollection nor Feature
OtherDocuments == {Geom("Point", <<2, 3>>), [type |-> "Topology"]}

ImportDocuments ==
    {FeatureCollection(fs) : fs \in SeqsUpTo(FeaturePool, MaxFeatures)}
    \cup FeaturePool \cup OtherDocuments

File(name, text) == [type |-> "File", name |-> name, text |-> text]
JsonText(doc) == [type |-> "json", value |-> doc]
MalformedText == [type |-> "malformed"]

SyntaxError == [type |-> "SyntaxError"]
JSONParse(text) == IF text.type = "json" THEN text.value ELSE SyntaxError

\* error.message
Message(error) ==
    IF error = SyntaxError THEN "Unexpected token"
    ELSE "Cannot read properties of null (reading 'type')"

ImportFiles ==
    {File("data.geojson", JsonText(d)) : d \in ImportDocuments}
    \cup {File("data.geojson", MalformedText)}

PointFeature == Feature(Geom("Point", <<2, 3>>), Obj(<<<<"name", "A">>>>))
PolygonFeature ==
    Feature(Geom("Polygon", <<<<<<4, 1>>, <<6, 1>>, <<6, 2>>, <<4, 1>>>>>>), Null)

AppFiles ==
    {File("a.geojson", JsonText(FeatureCollection(<<PointFeature, PolygonFeature>>))),
     File("b.geojson", JsonText(FeatureCollection(<<PointFeature, Feature(Null, Null)>>))),
     File("c.json", JsonText([type |-> "Topology"])),
     File("d.txt", MalformedText)}

\* the files of a folder
FilesIn(dir) ==
    CASE dir = "samples" -> AppFiles
      [] dir = "documents" -> ImportFiles
      [] OTHER -> {}

(***************************************************************************)
(* loadGeoJSON, lines 115-133: the loop over the features.  The result      *)
(* holds the locals `graphics` and `bounds` as they are when the loop ends  *)
(* or when createGraphicFromGeoJSON throws.                                 *)
(***************************************************************************)
RECURSIVE forEachStopsAtNull(_, _, _)
\* a bug a maintainer could write: an unsupported feature ends the loop
forEachStopsAtNull(features, graphics, bounds) ==
    IF features = <<>> THEN [threw |-> FALSE, graphics |-> graphics, bounds |-> bounds]
    ELSE LET graphic == createGraphicFromGeoJSON(Head(features))
         IN  IF graphic = TypeError
             THEN [threw |-> TRUE, graphics |-> graphics, bounds |-> bounds]
             ELSE IF graphic # Null
             THEN forEachStopsAtNull(Tail(features), Append(graphics, graphic),
                                     updateBounds(bounds, graphic.geometry))
             ELSE [threw |-> FALSE, graphics |-> graphics, bounds |-> bounds]

RECURSIVE forEach(_, _, _)
forEach(features, graphics, bounds) ==
    IF features = <<>> THEN [threw |-> FALSE, graphics |-> graphics, bounds |-> bounds]
    ELSE LET graphic == createGraphicFromGeoJSON(Head(features))
         IN  IF graphic = TypeError
             THEN [threw |-> TRUE, graphics |-> graphics, bounds |-> bounds]
             ELSE IF graphic # Null
             THEN forEach(Tail(features), Append(graphics, graphic),
                          updateBounds(bounds, graphic.geometry))
             ELSE forEach(Tail(features), graphics, bounds)

\* the dispatch on geojsonData.type
ProcessFeatures(geojsonData) ==
    LET r == IF geojsonData.type = "FeatureCollection"
             THEN forEach(geojsonData.features, <<>>, Null)
             ELSE IF geojsonData.type = "Feature"
             THEN forEach(<<geojsonData>>, <<>>, Null)
             ELSE [threw |-> FALSE, graphics |-> <<>>, bounds |-> Null]
    IN  [type |-> "load", doc |-> geojsonData, threw |-> r.threw,
         graphics |-> r.graphics, bounds |-> r.bounds]

\* new GraphicsLayer({title}) after layer.addMany(graphics); oid is the
\* identity of the object
GraphicsLayer(oid, fileName, graphics) ==
    [type |-> "GraphicsLayer", oid |-> oid, title |-> fileName, graphics |-> graphics]

\* a bug a maintainer could write: the layer goes on the map before the loop
\* and receives each graphic as it is made
LayersAddedEagerly(layers, layer, load) == Append(layers, layer)

\* a bug a maintainer could write: return early when nothing was dispatched
LayersSkipOtherTypes(layers, layer, load) ==
    IF load.threw \/ load.doc.type \notin {"FeatureCollection", "Feature"} THEN layers
    ELSE Append(layers, layer)

\* view.map.add(layer), line 136, which a throw in the loop never reaches
LayersAfterLoad(layers, layer, load) ==
    IF load.threw THEN layers ELSE Append(layers, layer)

\* `layer-${Date.now()}`
LayerId(t) == <<"layer-", t>>

\* Map.prototype.set: a present key keeps its place and takes the new value
MapSet(map, key, value) ==
    IF \E i \in DOMAIN map : map[i].key = key
    THEN [i \in DOMAIN map |-> IF map[i].key = key
                               THEN [key |-> key, value |-> value] ELSE map[i]]
    ELSE Append(map, [key |-> key, value |-> value])

MapHas(map, key) == \E i \in DOMAIN map : map[i].key = key
MapGet(map, key) == map[CHOOSE i \in DOMAIN map : map[i].key = key].value
MapDelete(map, key) == SelectSeq(map, LAMBDA e : e.key # key)

\* updateLayerList: what layerListEl shows for a loadedLayers map
RenderLayerList(map) ==
    IF Len(map) = 0 THEN [type |-> "placeholder", items |-> <<>>]
    ELSE [type |-> "list",
          items |-> [i \in DOMAIN map |->
                        [fileName |-> map[i].value.fileName, layerId |-> map[i].key]]]

\* how the promise awaited at line 94 settles: file.text() reads the file, and
\* the handler resumes in a later task
FileTextSettles == "task"

\* a change a maintainer could make: loadGeoJSON awaits the view
LoadSettlesInTask == "task"

\* how the promise awaited at line 97 settles: loadGeoJSON holds no await, so
\* its promise is settled when it returns and the handler resumes in a microtask
LoadGeoJSONSettles == "microtask"

(***************************************************************************)
(* The pure functions are exercised one at a time: a probe holds one input  *)
(* and what the function made of it.                                        *)
(***************************************************************************)
VARIABLES
    convInput, convOutput,              \* convertGeoJSONGeometry
    popupInput, popupOutput,            \* createPopupTemplate
    acc, accPrev, folded, nFolded,      \* updateBounds, folded over geometries
    expanded                            \* acc.expand(1.2)

convVars == <<convInput, convOutput>>
popupVars == <<popupInput, popupOutput>>
boundsVars == <<acc, accPrev, folded, nFolded, expanded>>
probeVars == <<convVars, popupVars, boundsVars>>

NotRun == [type |-> "not run"]

ConvIdle == convInput = Null /\ convOutput = NotRun
PopupIdle == popupInput = Null /\ popupOutput = NotRun
BoundsIdle ==
    acc = Null /\ accPrev = Null /\ folded = Null /\ nFolded = 0 /\ expanded = NotRun

(***************************************************************************)
(* The application: the DOM and map state the handlers read and write, and  *)
(* the event loop's bookkeeping.                                            *)
(***************************************************************************)
VARIABLES
    basemap,            \* mapEl.basemap
    center, zoom,       \* mapEl.center, mapEl.zoom
    viewGraphics,       \* view.graphics: the markers
    viewTarget,         \* the extent last handed to view.goTo
    mapLayers,          \* view.map.layers, in the order added
    loadedLayers,       \* the Map loadedLayers, in insertion order
    layerListEl,        \* what layerListEl shows
    fileNameDisplay,    \* fileNameDisplay.textContent
    notification,       \* notification.textContent and its kind
    nNotified,          \* calls of showNotification so far
    now,                \* Date.now()
    nextOid,            \* identity of the next object constructed
    awaiting,           \* upload handlers suspended at an await
    lastLoad,           \* the locals of the latest loadGeoJSON call
    lastRun,            \* the handler that ran the latest step
    folder,             \* names the set of files the user can select
    quota               \* user events still to come

appVars ==
    <<basemap, center, zoom, viewGraphics, viewTarget, mapLayers, loadedLayers,
      layerListEl, fileNameDisplay, notification, nNotified, now, nextOid,
      awaiting, lastLoad, lastRun, folder, quota>>

vars == <<appVars, probeVars>>

Basemaps == {"satellite", "topo-vector"}
\* the values of the location dropdown, split at the commas; <<>> is the
\* empty value of its first option
LocationValues == {<<>>, <<12, 41, 10>>}

InitialView == [type |-> "initial view"]
NoLoad == [type |-> "no load"]
NoNotification == [type |-> "notification", message |-> <<>>, kind |-> "none"]

Run(handler, hid, phase) == [handler |-> handler, hid |-> hid, phase |-> phase]

\* the state once init() has resolved and setupEventListeners has run
AppInit(dir, events) ==
    /\ basemap = "topo-vector"
    /\ center = <<0, 0>>
    /\ zoom = 2
    /\ viewGraphics = <<>>
    /\ viewTarget = InitialView
    /\ mapLayers = <<>>
    /\ loadedLayers = <<>>
    /\ layerListEl = [type |-> "placeholder", items |-> <<>>]
    /\ fileNameDisplay = <<>>
    /\ notification = NoNotification
    /\ nNotified = 0
    /\ now = 0
    /\ nextOid = 1
    /\ awaiting = {}
    /\ lastLoad = NoLoad
    /\ lastRun = Run("init", 0, "done")
    /\ folder = dir
    /\ quota = events

\* the event loop takes the next task only when no microtask is queued
NoMicrotask == \A h \in awaiting : h.settles # "microtask"

\* a user event is taken
Event == NoMicrotask /\ quota > 0 /\ quota' = quota - 1

\* showNotification(message, type)
ShowNotification(message, kind) ==
    /\ notification' = [type |-> "notification", message |-> message, kind |-> kind]
    /\ nNotified' = nNotified + 1

\* handleBasemapChange
HandleBasemapChange(value) ==
    /\ Event
    /\ basemap' = value
    /\ lastRun' = Run("handleBasemapChange", quota, "done")
    /\ UNCHANGED probeVars
    /\ UNCHANGED <<center, zoom, viewGraphics, viewTarget, mapLayers, loadedLayers,
                   layerListEl, fileNameDisplay, notification, nNotified, now,
                   nextOid, awaiting, lastLoad, folder>>

\* handleLocationChange
HandleLocationChange(value) ==
    /\ Event
    /\ IF value # <<>>
       THEN center' = <<value[1], value[2]>> /\ zoom' = value[3]
       ELSE UNCHANGED <<center, zoom>>
    /\ lastRun' = Run("handleLocationChange", quota, "done")
    /\ UNCHANGED probeVars
    /\ UNCHANGED <<basemap, viewGraphics, viewTarget, mapLayers, loadedLayers,
                   layerListEl, fileNameDisplay, notification, nNotified, now,
                   nextOid, awaiting, lastLoad, folder>>

\* handleAddMarker
HandleAddMarker ==
    /\ Event
    /\ viewGraphics' = Append(viewGraphics,
            [type |-> "Graphic",
             geometry |-> [type |-> "point", longitude |-> center[1],
                           latitude |-> center[2]],
             symbol |-> [type |-> "simple-marker"]])
    /\ ShowNotification(<<"Marker added successfully!">>, "success")
    /\ lastRun' = Run("handleAddMarker", quota, "done")
    /\ UNCHANGED probeVars
    /\ UNCHANGED <<basemap, center, zoom, viewTarget, mapLayers, loadedLayers,
                   layerListEl, fileNameDisplay, now, nextOid, awaiting, lastLoad,
                   folder>>

\* handleGeoJSONUpload, lines 87-94: up to the await of file.text()
UploadStart(file) ==
    /\ Event
    /\ IF file = Null
       THEN UNCHANGED <<fileNameDisplay, awaiting>>
       ELSE /\ fileNameDisplay' = <<"Selected: ", file.name>>
            /\ awaiting' = awaiting \cup
                   {[hid |-> quota, file |-> file, at |-> "file.text",
                     settles |-> FileTextSettles, threw |-> FALSE,
                     message |-> ""]}
    /\ lastRun' = Run("handleGeoJSONUpload", quota, "start")
    /\ UNCHANGED probeVars
    /\ UNCHANGED <<basemap, center, zoom, viewGraphics, viewTarget, mapLayers,
                   loadedLayers, layerListEl, notification, nNotified, now, nextOid,
                   lastLoad, folder>>

\* the catch block, lines 99-103
CatchError(message) ==
    /\ ShowNotification(<<"Error loading file: ", message>>, "error")
    /\ fileNameDisplay' = <<>>

\* lines 94-97: file.text() has resolved; JSON.parse, then the whole of
\* loadGeoJSON, which runs up to its return or throw before the await of its
\* promise suspends the handler again
UploadRead(h) ==
    /\ h \in awaiting /\ h.at = "file.text"
    /\ NoMicrotask
    /\ lastRun' = Run("handleGeoJSONUpload", h.hid, "read")
    /\ LET geojsonData == JSONParse(h.file.text)
       IN  IF geojsonData = SyntaxError
           THEN /\ CatchError(Message(SyntaxError))
                /\ awaiting' = awaiting \ {h}
                /\ UNCHANGED <<viewTarget, mapLayers, loadedLayers, layerListEl,
                               nextOid, lastLoad>>
           ELSE LET load == ProcessFeatures(geojsonData)
                    layer == GraphicsLayer(nextOid, h.file.name, load.graphics)
                    layerId == LayerId(now)
                IN  /\ lastLoad' = load
                    /\ nextOid' = nextOid + 1
                    /\ mapLayers' = LayersAfterLoad(mapLayers, layer, load)
                    /\ IF load.threw
                       THEN UNCHANGED <<loadedLayers, layerListEl, viewTarget>>
                       ELSE /\ loadedLayers' =
                                  MapSet(loadedLayers, layerId,
                                         [layer |-> layer, fileName |-> h.file.name])
                            /\ layerListEl' = RenderLayerList(loadedLayers')
                            /\ viewTarget' = IF load.bounds # Null
                                             THEN expand(load.bounds)
                                             ELSE viewTarget
                    /\ awaiting' = (awaiting \ {h}) \cup
                           {[h EXCEPT !.at = "loadGeoJSON",
                                      !.settles = LoadGeoJSONSettles,
                                      !.threw = load.threw,
                                      !.message = Message(TypeError)]}
                    /\ UNCHANGED <<fileNameDisplay, notification, nNotified>>
    /\ UNCHANGED probeVars
    /\ UNCHANGED <<basemap, center, zoom, viewGraphics, now, folder, quota>>

\* lines 97-103: the promise of loadGeoJSON has settled
UploadDone(h) ==
    /\ h \in awaiting /\ h.at = "loadGeoJSON"
    /\ h.settles = "microtask" \/ NoMicrotask
    /\ awaiting' = awaiting \ {h}
    /\ IF h.threw
       THEN CatchError(h.message)
       ELSE /\ ShowNotification(<<"Successfully loaded ", h.file.name>>, "success")
            /\ UNCHANGED fileNameDisplay
    /\ lastRun' = Run("handleGeoJSONUpload", h.hid, "done")
    /\ UNCHANGED probeVars
    /\ UNCHANGED <<basemap, center, zoom, viewGraphics, viewTarget, mapLayers,
                   loadedLayers, layerListEl, now, nextOid, lastLoad, folder, quota>>

\* window.removeLayer
RemoveLayer(layerId) ==
    /\ Event
    /\ IF MapHas(loadedLayers, layerId)
       THEN LET data == MapGet(loadedLayers, layerId)
            IN  /\ mapLayers' = SelectSeq(mapLayers, LAMBDA l : l # data.layer)
                /\ loadedLayers' = MapDelete(loadedLayers, layerId)
                /\ layerListEl' = RenderLayerList(loadedLayers')
                /\ ShowNotification(<<"Removed ", data.fileName>>, "success")
       ELSE UNCHANGED <<mapLayers, loadedLayers, layerListEl, notification, nNotified>>
    /\ lastRun' = Run("removeLayer", quota, "done")
    /\ UNCHANGED probeVars
    /\ UNCHANGED <<basemap, center, zoom, viewGraphics, viewTarget, fileNameDisplay,
                   now, nextOid, awaiting, lastLoad, folder>>

\* the clock advances; no handler runs
Tick ==
    /\ now < MaxClock
    /\ now' = now + 1
    /\ lastRun' = Run("clock", 0, "done")
    /\ UNCHANGED probeVars
    /\ UNCHANGED <<basemap, center, zoom, viewGraphics, viewTarget, mapLayers,
                   loadedLayers, layerListEl, fileNameDisplay, notification,
                   nNotified, nextOid, awaiting, lastLoad, folder, quota>>

LayerIds == {LayerId(t) : t \in -1..MaxClock}

\* what the file picker can hand over: a file of the folder, or none when the
\* dialog is cancelled
Selectable == IF quota > 0 THEN FilesIn(folder) \cup {Null} ELSE {}

(***************************************************************************)
(* The probes of the pure functions.                                        *)
(***************************************************************************)
\* ---- the converter ----
ConvInit == convInput \in GeoJSONGeometries /\ convOutput = NotRun

Convert ==
    /\ convOutput = NotRun
    /\ convOutput' = convertGeoJSONGeometry(convInput)
    /\ UNCHANGED <<convInput, popupVars, boundsVars, appVars>>

\* ---- the popup formatter ----
PopupInit == popupInput \in PropertyMaps \cup {Null} /\ popupOutput = NotRun

FormatPopup ==
    /\ popupOutput = NotRun
    /\ popupOutput' = createPopupTemplate(popupInput)
    /\ UNCHANGED <<popupInput, convVars, boundsVars, appVars>>

\* ---- the bounds accumulator ----
\* p comes no later than q, by x and then by y
NotAfter(p, q) == p[1] < q[1] \/ (p[1] = q[1] /\ p[2] <= q[2])
PositionPairs == {pq \in Positions \X Positions : NotAfter(pq[1], pq[2])}

\* the geometries folded are what the converter makes of these: a point, a
\* multipoint, two paths of one position each, one ring of two positions, and
\* a line of no position
BoundsInputs ==
    {Geom("Point", p) : p \in Positions}
    \cup {Geom("MultiPoint", <<p>>) : p \in Positions}
    \cup {Geom("MultiLineString", <<<<pq[1]>>, <<pq[2]>>>>) : pq \in PositionPairs}
    \cup {Geom("Polygon", <<<<pq[1], pq[2]>>>>) : pq \in PositionPairs}
    \cup {Geom("LineString", <<>>)}

ConvertedGeometries == {convertGeoJSONGeometry(g) : g \in BoundsInputs}

\* bounds = updateBounds(bounds, graphic.geometry), once per graphic
Fold(geometry) ==
    /\ nFolded < MaxFolds
    /\ expanded = NotRun
    /\ accPrev' = acc
    /\ acc' = updateBounds(acc, geometry)
    /\ folded' = geometry
    /\ nFolded' = nFolded + 1
    /\ UNCHANGED <<expanded, convVars, popupVars, appVars>>

\* if (bounds) view.goTo(bounds.expand(1.2)), after the fold
Expand ==
    /\ acc # Null
    /\ expanded = NotRun
    /\ expanded' = expand(acc)
    /\ UNCHANGED <<acc, accPrev, folded, nFolded, convVars, popupVars, appVars>>

(***************************************************************************)
(* The specifications.                                                      *)
(***************************************************************************)
Next ==
    \/ \E value \in Basemaps : HandleBasemapChange(value)
    \/ \E value \in LocationValues : HandleLocationChange(value)
    \/ HandleAddMarker
    \/ \E file \in Selectable : UploadStart(file)
    \/ \E h \in awaiting : UploadRead(h)
    \/ \E h \in awaiting : UploadDone(h)
    \/ \E layerId \in LayerIds : RemoveLayer(layerId)
    \/ Tick

\* the application, with a handful of files at hand
Init == AppInit("samples", MaxEvents) /\ ConvIdle /\ PopupIdle /\ BoundsIdle
Spec == Init /\ [][Next]_vars

\* one user event on the freshly started application, with every document
\* of ImportDocuments at hand
InitImport == AppInit("documents", 1) /\ ConvIdle /\ PopupIdle /\ BoundsIdle
SpecImport == InitImport /\ [][Next]_vars

\* the probes, beside an application that handles no event
InitConv == ConvInit /\ PopupIdle /\ BoundsIdle /\ AppInit("none", 0)
SpecConv == InitConv /\ [][Convert]_vars

InitPopup == ConvIdle /\ PopupInit /\ BoundsIdle /\ AppInit("none", 0)
SpecPopup == InitPopup /\ [][FormatPopup]_vars

InitBounds == ConvIdle /\ PopupIdle /\ BoundsIdle /\ AppInit("none", 0)
NextBounds == (\E geometry \in ConvertedGeometries : Fold(geometry)) \/ Expand
SpecBounds == InitBounds /\ [][NextBounds]_vars

(***************************************************************************)
(* Properties.                                                              *)
(***************************************************************************)
\* the coordinate positions of a GeoJSON geometry, in document order
InputPositions(g) ==
    CASE g.type = "Point" -> <<g.coordinates>>
      [] g.type \in {"LineString", "MultiPoint"} -> g.coordinates
      [] g.type \in {"Polygon", "MultiLineString"} -> Flat(g.coordinates)
      [] g.type = "MultiPolygon" -> Flat(Flat(g.coordinates))

\* the coordinate positions of a converted geometry, in order
OutputPositions(c) ==
    CASE c.type = "point" -> <<<<c.longitude, c.latitude>>>>
      [] c.type = "polyline" -> Flat(c.paths)
      [] c.type = "polygon" -> Flat(c.rings)
      [] c.type = "multipoint" -> c.points

RECURSIVE SumLen(_)
SumLen(ss) == IF ss = <<>> THEN 0 ELSE Len(Head(ss)) + SumLen(Tail(ss))

Range(f) == {f[i] : i \in DOMAIN f}

\* C8: for every supported geometry type the converter's output holds the
\* input's coordinate positions, as many and in the same order; a
\* MultiPolygon's output holds one ring per ring of every polygon.
C8_PositionsPreserved ==
    (convOutput # NotRun /\ convInput.type \in SupportedTypes) =>
        /\ OutputPositions(convOutput) = InputPositions(convInput)
        /\ Len(OutputPositions(convOutput)) = Len(InputPositions(convInput))
        /\ convInput.type = "MultiPolygon" =>
               Len(convOutput.rings) = SumLen(convInput.coordinates)

\* a MultiPolygon of two polygons has been converted
C8_Witness ==
    /\ convOutput # NotRun
    /\ convInput.type = "MultiPolygon"
    /\ Len(convInput.coordinates) = 2
    /\ Len(convOutput.rings) = 2

\* does the string `whole` hold the pieces of `part` side by side
Contains(whole, part) ==
    \E k \in 0..(Len(whole) - Len(part)) :
        \A i \in DOMAIN part : whole[k + i] = part[i]

\* what a browser displays for a content string: the <b> tags vanish and
\* each <br> breaks the line
Displayed(content) ==
    LET kept == SelectSeq(content, LAMBDA piece : piece \notin {"<b>", "</b>"})
    IN  [i \in DOMAIN kept |-> IF kept[i] = "<br>" THEN "\n" ELSE kept[i]]

RECURSIVE TextLines(_)
\* the lines `key: value` of the entries, one per line
TextLines(entries) ==
    IF entries = <<>> THEN <<>>
    ELSE IF Len(entries) = 1 THEN <<entries[1][1], ":", " ", entries[1][2]>>
    ELSE <<entries[1][1], ":", " ", entries[1][2], "\n">> \o TextLines(Tail(entries))

Placeholder == [title |-> "Feature", content |-> <<"No properties available">>]

PointExpanded == nFolded = 1 /\ folded.type = "point" /\ expanded # NotRun

\* C7 as claimed: the expanded box of a single point has positive width and
\* height and is centered on the point.
C7_PositiveSize ==
    PointExpanded =>
        /\ JsLeq(expanded.xmin, expanded.xmax) /\ expanded.xmin # expanded.xmax
        /\ JsLeq(expanded.ymin, expanded.ymax) /\ expanded.ymin # expanded.ymax
        /\ JsAdd(expanded.xmin, expanded.xmax) = Num(2 * ExpandScale * folded.longitude)
        /\ JsAdd(expanded.ymin, expanded.ymax) = Num(2 * ExpandScale * folded.latitude)

\* C7, amended: the expanded box of a single point is that point again, of
\* width and height zero.
C7_ZeroSize ==
    PointExpanded =>
        /\ expanded.xmin = Num(ExpandScale * folded.longitude)
        /\ expanded.xmax = Num(ExpandScale * folded.longitude)
        /\ expanded.ymin = Num(ExpandScale * folded.latitude)
        /\ expanded.ymax = Num(ExpandScale * folded.latitude)

C7_Witness == PointExpanded /\ folded.longitude # folded.latitude

\* loadGeoJSON has run, in the one upload of SpecImport
Loaded == lastLoad # NoLoad
\* the upload handler has returned
HandlerReturned == Loaded /\ awaiting = {}

Supported(feature) == feature.geometry.type \in SupportedTypes

\* C1: the layer of an imported FeatureCollection holds one graphic per
\* feature of a supported geometry type, in input order; every other feature
\* converts to null and is left out, and the features after it are still
\* processed.
C1_OneGraphicPerSupportedFeature ==
    (Loaded /\ lastLoad.doc.type = "FeatureCollection" /\ ~lastLoad.threw) =>
        LET kept == SelectSeq(lastLoad.doc.features, Supported)
            layer == mapLayers[Len(mapLayers)]
        IN  /\ Len(layer.graphics) = Len(kept)
            /\ \A i \in DOMAIN kept :
                   /\ layer.graphics[i].geometry = convertGeoJSONGeometry(kept[i].geometry)
                   /\ layer.graphics[i].symbol = getSymbolForGeometry(kept[i].geometry.type)
                   /\ layer.graphics[i].popupTemplate =
                          createPopupTemplate(kept[i].properties)
            /\ \A i \in DOMAIN lastLoad.doc.features :
                   ~Supported(lastLoad.doc.features[i]) =>
                       convertGeoJSONGeometry(lastLoad.doc.features[i].geometry) = Null

\* a GeometryCollection feature followed by a supported one has been imported
C1_Witness ==
    /\ Loaded /\ lastLoad.doc.type = "FeatureCollection" /\ ~lastLoad.threw
    /\ Len(lastLoad.doc.features) = 2
    /\ lastLoad.doc.features[1].geometry.type = "GeometryCollection"
    /\ Supported(lastLoad.doc.features[2])
    /\ Len(mapLayers) = 1 /\ Len(mapLayers[1].graphics) = 1

\* C2: once a feature has contributed, the bounds of the import satisfy
\* xmin <= xmax and ymin <= ymax and hold every coordinate of every converted
\* geometry.
C2_BoundsHoldEveryCoordinate ==
    (Loaded /\ Len(lastLoad.graphics) >= 1) =>
        /\ lastLoad.bounds # Null
        /\ JsLeq(lastLoad.bounds.xmin, lastLoad.bounds.xmax)
        /\ JsLeq(lastLoad.bounds.ymin, lastLoad.bounds.ymax)
        /\ \A i \in DOMAIN lastLoad.graphics :
               \A pos \in Range(OutputPositions(lastLoad.graphics[i].geometry)) :
                   /\ JsLeq(lastLoad.bounds.xmin, Num(pos[1]))
                   /\ JsLeq(Num(pos[1]), lastLoad.bounds.xmax)
                   /\ JsLeq(lastLoad.bounds.ymin, Num(pos[2]))
                   /\ JsLeq(Num(pos[2]), lastLoad.bounds.ymax)

\* an upload has failed at a feature that followed converted ones
FailedPartway == HandlerReturned /\ lastLoad.threw /\ Len(lastLoad.graphics) >= 1

OnMap(graphic) == \E i \in DOMAIN mapLayers : graphic \in Range(mapLayers[i].graphics)

\* C3 as claimed: one error notification, and the graphics of the earlier
\* features are on the map.
C3_EarlierGraphicsRemain ==
    FailedPartway =>
        /\ nNotified = 1 /\ notification.kind = "error"
        /\ \A i \in DOMAIN lastLoad.graphics : OnMap(lastLoad.graphics[i])

\* C3, amended: one error notification, and nothing of the upload is on the
\* map or in loadedLayers.
C3_NothingReachesTheMap ==
    FailedPartway =>
        /\ nNotified = 1 /\ notification.kind = "error"
        /\ fileNameDisplay = <<>>
        /\ mapLayers = <<>> /\ loadedLayers = <<>>
        /\ viewTarget = InitialView
        /\ \A i \in DOMAIN lastLoad.graphics : ~OnMap(lastLoad.graphics[i])

C3_Witness == FailedPartway /\ lastLoad.doc.type = "FeatureCollection"

\* a document that is neither a FeatureCollection nor a Feature was imported
OtherImported ==
    HandlerReturned /\ lastLoad.doc.type \notin {"FeatureCollection", "Feature"}

\* C5 as claimed: such an import leaves the map's layers, loadedLayers, the
\* layer list and the view as they were.
C5_NothingChanges ==
    OtherImported =>
        /\ mapLayers = <<>>
        /\ loadedLayers = <<>>
        /\ layerListEl = [type |-> "placeholder", items |-> <<>>]
        /\ viewTarget = InitialView

\* C5, amended: such an import creates no graphic and leaves the view as it
\* was, and it adds one empty layer to the map, to loadedLayers and to the
\* layer list.
C5_EmptyLayerAdded ==
    OtherImported =>
        /\ lastLoad.graphics = <<>> /\ lastLoad.bounds = Null
        /\ viewTarget = InitialView
        /\ Len(mapLayers) = 1 /\ mapLayers[1].graphics = <<>>
        /\ Len(loadedLayers) = 1 /\ loadedLayers[1].value.layer = mapLayers[1]
        /\ layerListEl.type = "list" /\ Len(layerListEl.items) = 1
        /\ notification.kind = "success"

C5_Witness == OtherImported /\ lastLoad.doc.type = "Topology"

\* the upload handlers in progress, and those past the read of their file
InProgress == {h.hid : h \in awaiting}
PastRead == {h.hid : h \in {a \in awaiting : a.at = "loadGeoJSON"}}

\* the step was taken by a continuation of one of the handlers `hids`, or by
\* the clock
ContinuationOf(hids) ==
    \/ lastRun'.handler = "clock"
    \/ /\ lastRun'.handler = "handleGeoJSONUpload"
       /\ lastRun'.phase \in {"read", "done"}
       /\ lastRun'.hid \in hids

\* C4 as claimed: while an upload handler is in progress no other handler
\* takes a step.
C4_NoHandlerDuringUpload == [][InProgress # {} => ContinuationOf(InProgress)]_vars

\* C4, amended: once the file of an upload has been read, no other handler
\* takes a step until the upload has notified.
C4_NoHandlerAfterRead == [][PastRead # {} => ContinuationOf(PastRead)]_vars

\* one upload is past its read while another still waits for its file
C4_Witness == PastRead # {} /\ InProgress # PastRead /\ quota > 0

\* C10: the layers on the map are the layers held in loadedLayers.
C10_MapLayersAreLoadedLayers ==
    Range(mapLayers) = {loadedLayers[i].value.layer : i \in DOMAIN loadedLayers}

=============================================================================
